---- MODULE Spec2Model ----
(***************************************************************************)
(* A model of hearthbreaker/effects/minion.py: the minion effects, their   *)
(* apply/unapply life cycle, and the collaborators they act on (the event  *)
(* bus of players and minions, the per-player effect count, the mana       *)
(* filter chain, the deathrattle slot and the aura list).                  *)
(***************************************************************************)
EXTENDS Integers, Sequences, FiniteSets, TLC

VARIABLES
    effect_count,       \* player -> effect kind -> number of applied instances
    heal_does_damage,   \* player -> BOOLEAN
    had,                \* HealAsDamage instance -> [st, player]
    dd,                 \* DoubleDeathrattle instance -> [st, player]
    minion_died,        \* player -> listeners bound to "minion_died"
    rattle_calls,       \* deathrattle invocations made by listeners in the last "minion_died" publish
    rattle_raised,      \* whether a listener of that publish raised
    native,             \* whether the target minion's card gave it a deathrattle of its own
    deathrattle,        \* the target minion's deathrattle slot: a callable or None
    sod,                \* SummonOnDeath effect -> [st, replacement, count, old_death_rattle]
    minions,            \* the board of the target's player: a sequence of cards
    rattle_log,         \* what the last invocation of the deathrattle slot did, in order
    deaths,             \* invocations of the deathrattle slot so far
    stats_aura,         \* the StatsAura effect: [st, attack, health, players, minion_type]
    auras,              \* the auras added by add_aura, in order
    aura_board,         \* minion -> [player, minion_type]; player is NoPlayer off the board
    mf,                 \* ManaFilter effect -> [st, amount, minimum, filter_type, player, owner, filter_object]
    mana_filters,       \* player -> the player's sequence of Filter objects
    ca,                 \* the ChargeAura effect: [st, players, minion_type]
    cm,                 \* minion -> [loc, minion_type, card_charge] in the ChargeAura scenario
    cboard,             \* player -> the player's minions, in board order
    charge,             \* minion -> its charge flag
    affected_minions,   \* ChargeAura.affected_minions
    charged_minions,    \* ChargeAura.charged_minions
    silenced,           \* minion -> listeners bound to its "silenced"
    copied,             \* minion -> listeners bound to its "copied"
    minion_played,      \* player -> listeners bound to "minion_played"
    dom,                \* the DrawOnMinion effect: [st, minion_type]
    minion_placed,      \* listeners bound to "minion_placed" of the DrawOnMinion target's player
    draws,              \* player.draw() calls of the DrawOnMinion target's player
    placed,             \* "minion_placed" events published so far and the minion of the
                        \* last one: [n, is_target, minion_type]
    buff,               \* Buff effect -> [st, when, minion_filter, buff_target, attack, health, players]
    blisteners,         \* player -> event name -> listeners bound to it, in the Buff scenario
    bminions,           \* minion -> [attack, health] in the Buff scenario
    bevents,            \* minion events published in the Buff scenario
    braised,            \* whether the last publish of the Buff scenario raised an error
    current_player,     \* game.current_player in the turn scenario
    turn_open,          \* whether current_player's turn has started and not yet ended
    tlisteners,         \* player -> turn event name -> listeners bound to it
    km,                 \* the KillMinion effect: [st, when]
    imm,                \* the Immune effect: [st]
    bound_at,           \* effect -> the game.current_player its apply() read, NoPlayer before
    immune,             \* the target's immune flag
    dead,               \* whether the target has died
    tevents,            \* turn events published so far
    tcalls,             \* the callbacks run by the last turn event, in order
    ibc,                \* the IncreaseBattlecryMinionCost effect: [st, amount, mana_filter]
    res,                \* the ResurrectFriendlyMinionsAtEndOfTurn effect: [st]
    dead_minions,       \* its dead_minions list: the cards of the recorded deaths
    rlisteners,         \* player -> event name -> listeners, in the resurrect scenario
    rboard,             \* the minions (as cards) of the target's player, in board order
    rdeaths,            \* card -> deaths of friendly minions published while the effect was applied
    rsummons,           \* card -> times the effect has summoned it
    revents,            \* events published in the resurrect scenario
    aos,                \* the AddCardOnSpell effect: [st]
    hand,               \* the hand of the target's player: a sequence of cards
    spell_cast,         \* player -> listeners bound to "spell_cast"
    added,              \* cards the effect has appended to the hand
    spells              \* "spell_cast" events published: [n |-> all of them, applied |->
                        \* those on the target's player while the effect was applied]

countVars == <<effect_count, heal_does_damage, had, dd, minion_died, rattle_calls, rattle_raised>>

deathVars == <<native, deathrattle, sod, minions, rattle_log, deaths>>

auraVars == <<stats_aura, auras, aura_board>>

manaVars == <<mf, mana_filters>>

chargeVars == <<ca, cm, cboard, charge, affected_minions, charged_minions, silenced, copied,
                minion_played>>

drawVars == <<dom, minion_placed, draws, placed>>

buffVars == <<buff, blisteners, bminions, bevents, braised>>

turnVars == <<current_player, turn_open, tlisteners, km, imm, bound_at, immune, dead, tevents,
              tcalls>>

battlecryVars == <<ibc>>

resurrectVars == <<res, dead_minions, rlisteners, rboard, rdeaths, rsummons, revents>>

spellVars == <<aos, hand, spell_cast, added, spells>>

vars == <<countVars, deathVars, auraVars, manaVars, chargeVars, drawVars, buffVars, turnVars,
          battlecryVars, resurrectVars, spellVars>>

\* what the operations of one effect family leave alone
notCount == <<deathVars, auraVars, manaVars, chargeVars, drawVars, buffVars, turnVars,
    battlecryVars, resurrectVars, spellVars>>
notDeath == <<countVars, auraVars, manaVars, chargeVars, drawVars, buffVars, turnVars,
    battlecryVars, resurrectVars, spellVars>>
notAura == <<countVars, deathVars, manaVars, chargeVars, drawVars, buffVars, turnVars,
    battlecryVars, resurrectVars, spellVars>>
notMana == <<countVars, deathVars, auraVars, chargeVars, drawVars, buffVars, turnVars,
    battlecryVars, resurrectVars, spellVars>>
notCharge == <<countVars, deathVars, auraVars, manaVars, drawVars, buffVars, turnVars,
    battlecryVars, resurrectVars, spellVars>>
notDraw == <<countVars, deathVars, auraVars, manaVars, chargeVars, buffVars, turnVars,
    battlecryVars, resurrectVars, spellVars>>
notBuff == <<countVars, deathVars, auraVars, manaVars, chargeVars, drawVars, turnVars,
    battlecryVars, resurrectVars, spellVars>>
notTurn == <<countVars, deathVars, auraVars, manaVars, chargeVars, drawVars, buffVars,
    battlecryVars, resurrectVars, spellVars>>
notManaBattlecry == <<countVars, deathVars, auraVars, chargeVars, drawVars, buffVars, turnVars,
    resurrectVars, spellVars>>
notResurrect == <<countVars, deathVars, auraVars, manaVars, chargeVars, drawVars, buffVars,
    turnVars, battlecryVars, spellVars>>
notSpell == <<countVars, deathVars, auraVars, manaVars, chargeVars, drawVars, buffVars,
    turnVars, battlecryVars, resurrectVars>>

(***************************************************************************)
(* Bounds                                                                  *)
(***************************************************************************)
NumInst == 3            \* effect instances of each count-gated kind
NumSummon == 2          \* SummonOnDeath effects given to the target minion
MaxCount == 2           \* largest `count` of a SummonOnDeath effect
MaxDeaths == 2          \* invocations of the target's deathrattle slot
NumAuraMinions == 3     \* minions of the StatsAura scenario, the target included
MaxDelta == 1           \* largest attack / health delta of a StatsAura
NumFilters == 3         \* ManaFilter effects
MaxBase == 3            \* largest base cost of a card
NumChargeMinions == 3   \* minions of the ChargeAura scenario, the target included
MaxPlaced == 4          \* "minion_placed" events published in the DrawOnMinion scenario
MaxIncrease == 2        \* largest amount of an IncreaseBattlecryMinionCost effect
MaxResEvents == 4       \* events published in the resurrect scenario
MaxSpells == 3          \* "spell_cast" events published in the AddCardOnSpell scenario
MaxTurnEvents == 5      \* turn events published in the turn scenario
MaxBuffEvents == 2      \* events published in the Buff scenario

(***************************************************************************)
(* Players                                                                 *)
(***************************************************************************)
Players == {1, 2}
NoPlayer == 0
Opponent(p) == 3 - p

(***************************************************************************)
(* The event bus of an entity: one ordered listener list per event name.   *)
(* An entry is [cb |-> callback, once |-> one-shot flag].                  *)
(***************************************************************************)
bind(ls, cb) == Append(ls, [cb |-> cb, once |-> FALSE])

bind_once(ls, cb) == Append(ls, [cb |-> cb, once |-> TRUE])

\* the index of the first entry of ls holding callback cb, 0 when there is none
FirstIndex(ls, cb) ==
    IF \E i \in 1..Len(ls) : ls[i].cb = cb
    THEN CHOOSE i \in 1..Len(ls) : ls[i].cb = cb /\ \A j \in 1..(i - 1) : ls[j].cb # cb
    ELSE 0

RemoveAt(s, i) == SubSeq(s, 1, i - 1) \o SubSeq(s, i + 1, Len(s))

\* removes the first matching entry; a callback that is not bound is a no-op
unbind(ls, cb) ==
    IF FirstIndex(ls, cb) = 0 THEN ls ELSE RemoveAt(ls, FirstIndex(ls, cb))

IsBound(ls, cb) == FirstIndex(ls, cb) # 0

InSeq(x, s) == \E i \in 1..Len(s) : s[i] = x

(***************************************************************************)
(* Count-gated effects: HealAsDamage and DoubleDeathrattle.                *)
(***************************************************************************)
HealInst == 1..NumInst
DDInst == 1..NumInst
Kinds == {"HealAsDamage", "DoubleDeathrattle"}

\* the bound method self.trigger_deathrattle of DoubleDeathrattle instance i:
\* bound methods of different instances are different callbacks
trigger_deathrattle(i) == [fn |-> "trigger_deathrattle", self |-> i]

\* the count is incremented before apply() and decremented before unapply()
add_effect(count, p, kind) == [count EXCEPT ![p][kind] = @ + 1]

remove_effect(count, p, kind) == [count EXCEPT ![p][kind] = @ - 1]

HealAsDamage_unapply_always(count, flag) == FALSE

HealAsDamage_apply(count, flag) == IF count = 1 THEN TRUE ELSE flag

HealAsDamage_unapply(count, flag) == IF count = 0 THEN FALSE ELSE flag

DoubleDeathrattle_apply(i, count, ls) ==
    IF count = 1 THEN bind(ls, trigger_deathrattle(i)) ELSE ls

DoubleDeathrattle_unapply(i, count, ls) ==
    IF count = 0 THEN unbind(ls, trigger_deathrattle(i)) ELSE ls

\* a minion of player p receives HealAsDamage instance i
ApplyHealAsDamage(i, p) ==
    /\ had[i].st = "new"
    /\ had' = [had EXCEPT ![i] = [st |-> "applied", player |-> p]]
    /\ effect_count' = add_effect(effect_count, p, "HealAsDamage")
    /\ heal_does_damage' = [heal_does_damage EXCEPT
            ![p] = HealAsDamage_apply(effect_count'[p]["HealAsDamage"], @)]
    /\ UNCHANGED <<dd, minion_died, rattle_calls, rattle_raised, notCount>>

UnapplyHealAsDamage(i) ==
    /\ had[i].st = "applied"
    /\ had' = [had EXCEPT ![i].st = "unapplied"]
    /\ effect_count' = remove_effect(effect_count, had[i].player, "HealAsDamage")
    /\ heal_does_damage' = [heal_does_damage EXCEPT
            ![had[i].player] =
                HealAsDamage_unapply(effect_count'[had[i].player]["HealAsDamage"], @)]
    /\ UNCHANGED <<dd, minion_died, rattle_calls, rattle_raised, notCount>>

ApplyDoubleDeathrattle(i, p) ==
    /\ dd[i].st = "new"
    /\ dd' = [dd EXCEPT ![i] = [st |-> "applied", player |-> p]]
    /\ effect_count' = add_effect(effect_count, p, "DoubleDeathrattle")
    /\ minion_died' = [minion_died EXCEPT
            ![p] = DoubleDeathrattle_apply(i, effect_count'[p]["DoubleDeathrattle"], @)]
    /\ UNCHANGED <<had, heal_does_damage, rattle_calls, rattle_raised, notCount>>

UnapplyDoubleDeathrattle(i) ==
    /\ dd[i].st = "applied"
    /\ dd' = [dd EXCEPT ![i].st = "unapplied"]
    /\ effect_count' = remove_effect(effect_count, dd[i].player, "DoubleDeathrattle")
    /\ minion_died' = [minion_died EXCEPT
            ![dd[i].player] =
                DoubleDeathrattle_unapply(i, effect_count'[dd[i].player]["DoubleDeathrattle"], @)]
    /\ UNCHANGED <<had, heal_does_damage, rattle_calls, rattle_raised, notCount>>

\* "minion_died" is published on player p for a dead minion whose deathrattle
\* slot holds a callable (hasRattle) or None: every listener runs
\* minion.deathrattle(minion), and calling None raises, which ends the publish
PublishMinionDied(p, hasRattle) ==
    /\ rattle_calls' = IF hasRattle THEN Len(minion_died[p]) ELSE 0
    /\ rattle_raised' = (~hasRattle /\ Len(minion_died[p]) > 0)
    /\ UNCHANGED <<effect_count, heal_does_damage, had, dd, minion_died, notCount>>

(***************************************************************************)
(* Deathrattle chaining: SummonOnDeath on one target minion.               *)
(***************************************************************************)
SodInst == 1..NumSummon
Cards == {"A", "B"}
TargetCard == "T"

\* what a deathrattle slot can hold
None == [fn |-> "None", self |-> 0]
Native == [fn |-> "native", self |-> 0]
summon_replacement_ref(e) == [fn |-> "summon_replacement", self |-> e]

\* card.summon(player, game, index): the new minion is inserted at `index`
summon(board, card, index) ==
    SubSeq(board, 1, index) \o <<card>> \o SubSeq(board, index + 1, Len(board))

\* SummonOnDeath.__init__
NewSummonOnDeath(e, card, n) ==
    /\ sod[e].st = "unbuilt"
    /\ sod' = [sod EXCEPT ![e] = [st |-> "new", replacement |-> card, count |-> n,
                                  old_death_rattle |-> None]]
    /\ UNCHANGED <<native, deathrattle, minions, rattle_log, deaths, notDeath>>

summon_first(board, card) == summon(board, card, 0)

\* one pass of the loop of summon_replacement
summon_at_end(board, card) == summon(board, card, Len(board))

RECURSIVE summon_loop(_, _, _)
summon_loop(e, i, st) ==
    IF i >= sod[e].count THEN st
    ELSE summon_loop(e, i + 1,
            [minions |-> summon_at_end(st.minions, sod[e].replacement),
             log |-> Append(st.log, [by |-> e, card |-> sod[e].replacement])])

\* calling what a deathrattle slot holds; st is [minions, log]
RECURSIVE call_deathrattle(_, _)
summon_replacement_if_applied(e, st) ==
    LET st1 == IF sod[e].old_death_rattle # None
               THEN call_deathrattle(sod[e].old_death_rattle, st)
               ELSE st
    IN IF sod[e].st = "applied" THEN summon_loop(e, 0, st1) ELSE st1

summon_replacement(e, st) ==
    summon_loop(e, 0,
        IF sod[e].old_death_rattle # None
        THEN call_deathrattle(sod[e].old_death_rattle, st)
        ELSE st)

call_deathrattle(ref, st) ==
    IF ref = Native THEN [st EXCEPT !.log = Append(@, [by |-> 0, card |-> "native"])]
    ELSE IF ref.fn = "summon_replacement" THEN summon_replacement(ref.self, st)
    ELSE st

\* SummonOnDeath.apply; the effects are numbered in the order they are applied
ApplySummonOnDeath(e) ==
    /\ sod[e].st = "new"
    /\ \A f \in SodInst : f < e => sod[f].st \in {"applied", "unapplied"}
    /\ sod' = [sod EXCEPT ![e].st = "applied", ![e].old_death_rattle = deathrattle]
    /\ deathrattle' = summon_replacement_ref(e)
    /\ UNCHANGED <<native, minions, rattle_log, deaths, notDeath>>

\* the target dies (or its deathrattle is doubled): the slot is invoked once
InvokeDeathrattle ==
    /\ deaths < MaxDeaths
    /\ deathrattle # None
    /\ LET r == call_deathrattle(deathrattle, [minions |-> minions, log |-> <<>>])
       IN /\ minions' = r.minions
          /\ rattle_log' = r.log
    /\ deaths' = deaths + 1
    /\ UNCHANGED <<native, deathrattle, sod, notDeath>>

\* SummonOnDeath.unapply, while the target is alive: `pass`
UnapplySummonOnDeath(e) ==
    /\ sod[e].st = "applied"
    /\ deaths = 0
    /\ sod' = [sod EXCEPT ![e].st = "unapplied"]
    /\ UNCHANGED <<native, deathrattle, minions, rattle_log, deaths, notDeath>>

InitDeath(natives) ==
    /\ native \in natives
    /\ deathrattle = IF native THEN Native ELSE None
    /\ sod = [e \in SodInst |-> [st |-> "unbuilt", replacement |-> "A", count |-> 1,
                                 old_death_rattle |-> None]]
    /\ minions = <<TargetCard>>
    /\ rattle_log = <<>>
    /\ deaths = 0

NextDeath ==
    \/ \E e \in SodInst, card \in Cards, n \in 1..MaxCount : NewSummonOnDeath(e, card, n)
    \/ \E e \in SodInst : ApplySummonOnDeath(e)
    \/ InvokeDeathrattle

\* the same with effects unapplied
NextUnsummon ==
    \/ \E e \in SodInst, card \in Cards, n \in 1..MaxCount : NewSummonOnDeath(e, card, n)
    \/ \E e \in SodInst : ApplySummonOnDeath(e)
    \/ \E e \in SodInst : UnapplySummonOnDeath(e)
    \/ InvokeDeathrattle

(***************************************************************************)
(* StatsAura and the aura list it feeds through target.add_aura.           *)
(***************************************************************************)
MINION_TYPE_ALL == "ALL"
MinionTypes == {"BEAST", "NONE"}
Selectors == {"friendly", "enemy", "both"}
AuraMinions == 1..NumAuraMinions
AuraTarget == 1

\* the players list of StatsAura.apply; the target belongs to player 1
StatsAura_players(sel, owner) ==
    IF sel = "friendly" THEN {owner}
    ELSE IF sel = "enemy" THEN {Opponent(owner)}
    ELSE {owner, Opponent(owner)}

\* target.add_aura(attack, health, players, filter): one more aura in force
add_aura(as, attack, health, players, mtype, source) ==
    Append(as, [attack |-> attack, health |-> health, players |-> players,
                minion_type |-> mtype, source |-> source])

\* whether aura a selects minion m: m is on the board of one of the aura's players,
\* passes the aura's filter and is not the minion that gives the aura
AuraSelects(a, m) ==
    /\ aura_board[m].player \in a.players
    /\ a.minion_type = MINION_TYPE_ALL \/ aura_board[m].minion_type = a.minion_type
    /\ m # a.source

RECURSIVE SumAuras(_, _, _)
SumAuras(m, i, field) ==
    IF i > Len(auras) THEN 0
    ELSE (IF AuraSelects(auras[i], m)
          THEN (IF field = "attack" THEN auras[i].attack ELSE auras[i].health)
          ELSE 0) + SumAuras(m, i + 1, field)

\* the deltas a minion reads, folded over the auras in force at read time
aura_attack(m) == SumAuras(m, 1, "attack")

aura_health(m) == SumAuras(m, 1, "health")

\* StatsAura.__init__ and set_target
NewStatsAura(attack, health, sel, mtype) ==
    /\ stats_aura.st = "unbuilt"
    /\ stats_aura' = [st |-> "new", attack |-> attack, health |-> health,
                      players |-> sel, minion_type |-> mtype]
    /\ UNCHANGED <<auras, aura_board, notAura>>

StatsAura_apply ==
    /\ stats_aura.st = "new"
    /\ aura_board[AuraTarget].player # NoPlayer
    /\ stats_aura' = [stats_aura EXCEPT !.st = "applied"]
    /\ auras' = add_aura(auras, stats_aura.attack, stats_aura.health,
                        StatsAura_players(stats_aura.players, aura_board[AuraTarget].player),
                        stats_aura.minion_type, AuraTarget)
    /\ UNCHANGED <<aura_board, notAura>>

\* StatsAura.unapply is `pass`
StatsAura_unapply ==
    /\ stats_aura.st = "applied"
    /\ stats_aura' = [stats_aura EXCEPT !.st = "unapplied"]
    /\ UNCHANGED <<auras, aura_board, notAura>>

\* a minion of type mtype joins the board of player p
JoinBoard(m, p, mtype) ==
    /\ aura_board[m].player = NoPlayer
    /\ aura_board' = [aura_board EXCEPT ![m] = [player |-> p, minion_type |-> mtype]]
    /\ UNCHANGED <<stats_aura, auras, notAura>>

\* a minion other than the aura's target leaves the board
LeaveBoard(m) ==
    /\ m # AuraTarget
    /\ aura_board[m].player # NoPlayer
    /\ aura_board' = [aura_board EXCEPT ![m].player = NoPlayer]
    /\ UNCHANGED <<stats_aura, auras, notAura>>

InitAura ==
    /\ stats_aura = [st |-> "unbuilt", attack |-> 0, health |-> 0,
                     players |-> "friendly", minion_type |-> MINION_TYPE_ALL]
    /\ auras = <<>>
    /\ aura_board = [m \in AuraMinions |->
                        [player |-> IF m = AuraTarget THEN 1 ELSE NoPlayer,
                         minion_type |-> "NONE"]]

NextAura ==
    \/ \E attack \in 0..MaxDelta, health \in 0..MaxDelta, sel \in Selectors,
          mtype \in MinionTypes \cup {MINION_TYPE_ALL} :
            NewStatsAura(attack, health, sel, mtype)
    \/ StatsAura_apply
    \/ StatsAura_unapply
    \/ \E m \in AuraMinions \ {AuraTarget}, p \in Players, mtype \in MinionTypes :
            JoinBoard(m, p, mtype)
    \/ \E m \in AuraMinions : LeaveBoard(m)

(***************************************************************************)
(* ManaFilter and the mana filter chain of a player.                       *)
(***************************************************************************)
MfInst == 1..NumFilters
FilterTypes == {"card", "minion", "spell", "secret"}
\* the filter types the effects of the scenario are built with
BuiltTypes == {"minion", "spell"}
CardKinds == {"minion", "spell", "secret"}
FilterShapes == {[amount |-> -2, minimum |-> 1], [amount |-> 1, minimum |-> 0]}
NoFilter == [id |-> 0, amount |-> 0, min |-> 0, filter |-> "none"]

\* Card.is_spell(): spell cards, the secrets among them
is_spell(kind) == kind \in {"spell", "secret"}

\* my_filter of ManaFilter.apply, applied to a card of the given kind
my_filter(filter_type, kind) ==
    IF filter_type = "minion" THEN kind = "minion"
    ELSE IF filter_type = "spell" THEN is_spell(kind)
    ELSE IF filter_type = "secret" THEN kind = "secret"
    ELSE TRUE

Filter_swapped(id, amount, minimum, filter) ==
    [id |-> id, amount |-> minimum, min |-> amount, filter |-> filter]

\* the Filter class of ManaFilter.apply; every construction is a new object
Filter(id, amount, minimum, filter) ==
    [id |-> id, amount |-> amount, min |-> minimum, filter |-> filter]

\* list.remove(x): the first element equal to x goes (x is in the list whenever
\* unapply runs on an applied effect)
list_remove(s, x) ==
    IF \E i \in 1..Len(s) : s[i] = x
    THEN RemoveAt(s, CHOOSE i \in 1..Len(s) : s[i] = x /\ \A j \in 1..(i - 1) : s[j] # x)
    ELSE s

Max(a, b) == IF a >= b THEN a ELSE b

\* the cards of the cost scenarios: the kinds ManaFilter tells apart, and minion
\* cards whose minion has a battlecry
CostCards == CardKinds \cup {"battlecry_minion"}

\* filter.filter(card): the lambda of IncreaseBattlecryMinionCost.apply's Filter, or
\* my_filter of ManaFilter.apply (a minion card with a battlecry is a MinionCard)
filter_matches(filter, card) ==
    IF filter = "battlecry" THEN card = "battlecry_minion"
    ELSE my_filter(filter, IF card = "battlecry_minion" THEN "minion" ELSE card)

\* the effective cost of a card: a left fold over the player's filters, each
\* matching filter adding its amount and clamping at its own floor
RECURSIVE fold_filters(_, _, _, _)
fold_filters(chain, i, cost, kind) ==
    IF i > Len(chain) THEN cost
    ELSE fold_filters(chain, i + 1,
            IF filter_matches(chain[i].filter, kind)
            THEN Max(cost + chain[i].amount, chain[i].min)
            ELSE cost,
            kind)

\* the cost system floors the result at 0
mana_cost(chain, base, kind) == Max(fold_filters(chain, 1, base, kind), 0)

append_front(s, x) == <<x>> \o s

\* list.append(x)
append_last(s, x) == Append(s, x)

\* whether a ManaFilter with selector sel on a minion of `owner` covers player p
mf_covers(sel, owner, p) ==
    \/ (sel = "friendly" \/ sel = "both") /\ p = owner
    \/ (sel = "enemy" \/ sel = "both") /\ p = Opponent(owner)

\* the player whose minion effect e is given to
mf_owner(e) == IF e % 2 = 1 THEN 1 ELSE 2

\* ManaFilter(amount, filter_type, minimum, player) is constructed, given a minion
\* of mf_owner(e) as its target, and applied; the effects are numbered in the order
\* they are applied, and an effect's number identifies the Filter object it creates
ManaFilter_apply(e, amount, minimum, filter_type, sel) ==
    /\ mf[e].st = "new"
    /\ \A f \in MfInst : f < e => mf[f].st # "new"
    /\ LET obj == Filter(e, amount, minimum, filter_type)
       IN /\ mf' = [mf EXCEPT ![e] = [st |-> "applied", amount |-> amount,
                                      minimum |-> minimum, filter_type |-> filter_type,
                                      player |-> sel, owner |-> mf_owner(e),
                                      filter_object |-> obj]]
          /\ mana_filters' = [p \in Players |->
                IF mf_covers(sel, mf_owner(e), p)
                THEN append_last(mana_filters[p], obj)
                ELSE mana_filters[p]]
    /\ UNCHANGED notMana

ManaFilter_unapply(e) ==
    /\ mf[e].st = "applied"
    /\ mf' = [mf EXCEPT ![e].st = "unapplied"]
    /\ mana_filters' = [p \in Players |->
            IF mf_covers(mf[e].player, mf[e].owner, p)
            THEN list_remove(mana_filters[p], mf[e].filter_object)
            ELSE mana_filters[p]]
    /\ UNCHANGED notMana

InitMana ==
    /\ mf = [e \in MfInst |-> [st |-> "new", amount |-> 0, minimum |-> 0,
                               filter_type |-> "card", player |-> "friendly",
                               owner |-> mf_owner(e), filter_object |-> NoFilter]]
    /\ mana_filters = [p \in Players |-> <<>>]

NextMana ==
    \/ \E e \in MfInst, shape \in FilterShapes, filter_type \in BuiltTypes,
          sel \in Selectors :
            ManaFilter_apply(e, shape.amount, shape.minimum, filter_type, sel)
    \/ \E e \in MfInst : ManaFilter_unapply(e)

\* the same effects built with every filter type, all of them scoped "both"
NextCost ==
    \/ \E e \in MfInst, shape \in FilterShapes, filter_type \in FilterTypes :
            ManaFilter_apply(e, shape.amount, shape.minimum, filter_type, "both")
    \/ \E e \in MfInst : ManaFilter_unapply(e)

(***************************************************************************)
(* IncreaseBattlecryMinionCost                                             *)
(***************************************************************************)
Amounts == 1..MaxIncrease

\* the effect's Filter object is told from those of the ManaFilter effects
BattlecryFilterId == NumFilters + 1

\* the Filter class of IncreaseBattlecryMinionCost.apply
BattlecryFilter(amount) ==
    [id |-> BattlecryFilterId, amount |-> -amount, min |-> 0, filter |-> "battlecry"]

\* IncreaseBattlecryMinionCost.__init__
NewIncreaseBattlecryMinionCost(amount) ==
    /\ ibc.st = "unbuilt"
    /\ ibc' = [st |-> "new", amount |-> amount, mana_filter |-> NoFilter]
    /\ UNCHANGED <<manaVars, notManaBattlecry>>

\* IncreaseBattlecryMinionCost.apply: game.current_player and game.other_player are
\* the two players
IncreaseBattlecryMinionCost_apply ==
    /\ ibc.st = "new"
    /\ ibc' = [ibc EXCEPT !.st = "applied", !.mana_filter = BattlecryFilter(ibc.amount)]
    /\ mana_filters' = [p \in Players |->
                            append_last(mana_filters[p], BattlecryFilter(ibc.amount))]
    /\ UNCHANGED <<mf, notManaBattlecry>>

IncreaseBattlecryMinionCost_unapply ==
    /\ ibc.st = "applied"
    /\ ibc' = [ibc EXCEPT !.st = "unapplied"]
    /\ mana_filters' = [p \in Players |-> list_remove(mana_filters[p], ibc.mana_filter)]
    /\ UNCHANGED <<mf, notManaBattlecry>>

InitBattlecry == ibc = [st |-> "unbuilt", amount |-> 0, mana_filter |-> NoFilter]

\* the effect next to ManaFilter effects for minion cards, scoped "both"
NextBattlecry ==
    \/ \E amount \in Amounts : NewIncreaseBattlecryMinionCost(amount)
    \/ IncreaseBattlecryMinionCost_apply
    \/ IncreaseBattlecryMinionCost_unapply
    \/ \E e \in MfInst, shape \in FilterShapes, filter_type \in {"minion", "spell"} :
            ManaFilter_apply(e, shape.amount, shape.minimum, filter_type, "both")
    \/ \E e \in MfInst : ManaFilter_unapply(e)

(***************************************************************************)
(* ChargeAura.  The state a publish threads through its listeners is the   *)
(* record [charge, affected, charged, silenced, copied, new_minion,        *)
(* calls]: the charge flags, the two tracking lists, the minions' listener *)
(* lists, the minion a copy made (NoMinion outside a "copied" publish) and *)
(* the callbacks the publish has invoked so far, in order.                 *)
(***************************************************************************)
ChargeMinions == 1..NumChargeMinions
Target == 1
NoMinion == 0
\* the player a minion of the scenario belongs to; the target is player 1's
cm_owner(m) == IF m % 2 = 1 THEN 1 ELSE 2

\* the closures of give_permacharge_effect(minion) and watch_for_silence(minion)
perm_silenced(m) == [fn |-> "silenced", m |-> m]
perm_copied(m) == [fn |-> "copied", m |-> m]
target_silenced(m) == [fn |-> "target_silenced", m |-> m]
watch_silenced(m) == [fn |-> "watch_silenced", m |-> m]
unwatch(m) == [fn |-> "unwatch", m |-> m]
give_charge_if_beast_ref == [fn |-> "give_charge_if_beast", m |-> 0]

silenced_clears(m, st) == [st EXCEPT !.charge[m] = FALSE]

\* silenced() of give_permacharge_effect
silenced_cb(m, st) == [st EXCEPT !.charge[m] = TRUE]

\* copied(new_minion, new_owner) of give_permacharge_effect
copied_cb(m, st) == [st EXCEPT !.charge[st.new_minion] = FALSE]

target_silenced_keeps_copied(m, st) ==
    [st EXCEPT !.silenced[m] = unbind(@, perm_silenced(m)),
               !.charge[m] = FALSE]

\* target_silenced() of give_permacharge_effect
target_silenced_cb(m, st) ==
    [st EXCEPT !.silenced[m] = unbind(@, perm_silenced(m)),
               !.copied[m] = unbind(@, perm_copied(m)),
               !.charge[m] = FALSE]

give_permacharge_effect(m, st) ==
    LET st1 == [st EXCEPT !.charge[m] = TRUE, !.affected = Append(@, m)]
        st2 == [st1 EXCEPT !.silenced[m] = bind(@, perm_silenced(m))]
        st3 == [st2 EXCEPT !.copied[m] = bind(@, perm_copied(m))]
    IN [st3 EXCEPT !.silenced[Target] = bind_once(@, target_silenced(m))]

migrate_keep(m, st) == give_permacharge_effect(m, st)

watch_with_bind(m, st) ==
    LET st1 == [st EXCEPT !.silenced[m] = bind(@, watch_silenced(m))]
        st2 == [st1 EXCEPT !.silenced[Target] = bind_once(@, unwatch(m))]
    IN [st2 EXCEPT !.charged = Append(@, m)]

\* silenced() of watch_for_silence
migrate(m, st) == give_permacharge_effect(m, [st EXCEPT !.charged = list_remove(@, m)])

\* the lambda of watch_for_silence
unwatch_cb(m, st) == [st EXCEPT !.silenced[m] = unbind(@, watch_silenced(m))]

watch_for_silence(m, st) ==
    LET st1 == [st EXCEPT !.silenced[m] = bind_once(@, watch_silenced(m))]
        st2 == [st1 EXCEPT !.silenced[Target] = bind_once(@, unwatch(m))]
    IN [st2 EXCEPT !.charged = Append(@, m)]

TypeMatches(m) == ca.minion_type = MINION_TYPE_ALL \/ cm[m].minion_type = ca.minion_type

give_charge_if_beast(m, st) ==
    IF m = Target /\ TypeMatches(m)
    THEN [st EXCEPT !.charge[Target] = TRUE]
    ELSE IF TypeMatches(m)
         THEN (IF ~st.charge[m] THEN give_permacharge_effect(m, st)
               ELSE watch_for_silence(m, st))
         ELSE st

\* a listener of a minion's "silenced" or "copied" is called
invoke(cb, st0) ==
    LET st == [st0 EXCEPT !.calls = Append(@, cb)]
    IN IF cb.fn = "silenced" THEN silenced_cb(cb.m, st)
       ELSE IF cb.fn = "copied" THEN copied_cb(cb.m, st)
       ELSE IF cb.fn = "target_silenced" THEN target_silenced_cb(cb.m, st)
       ELSE IF cb.fn = "watch_silenced" THEN migrate(cb.m, st)
       ELSE IF cb.fn = "unwatch" THEN unwatch_cb(cb.m, st)
       ELSE st

\* the entry a bind_once made is removed once its callback has run
drop_once(ls, entry) ==
    IF \E i \in 1..Len(ls) : ls[i] = entry
    THEN RemoveAt(ls, CHOOSE i \in 1..Len(ls) : ls[i] = entry /\ \A j \in 1..(i - 1) : ls[j] # entry)
    ELSE ls

\* publish of event ev ("silenced" or "copied") on minion x: the listeners of the
\* snapshot taken at publish time run in registration order
RECURSIVE run_listeners(_, _, _, _, _)
run_listeners(snapshot, i, x, ev, st) ==
    IF i > Len(snapshot) THEN st
    ELSE LET st1 == invoke(snapshot[i].cb, st)
             st2 == IF ~snapshot[i].once THEN st1
                    ELSE IF ev = "silenced"
                         THEN [st1 EXCEPT !.silenced[x] = drop_once(@, snapshot[i])]
                         ELSE [st1 EXCEPT !.copied[x] = drop_once(@, snapshot[i])]
         IN run_listeners(snapshot, i + 1, x, ev, st2)

\* give_charge_if_beast called for each minion of a list, in order
RECURSIVE give_charge_each(_, _, _)
give_charge_each(ms, i, st) ==
    IF i > Len(ms) THEN st
    ELSE give_charge_each(ms, i + 1, give_charge_if_beast(ms[i], st))

Now == [charge |-> charge, affected |-> affected_minions, charged |-> charged_minions,
        silenced |-> silenced, copied |-> copied, new_minion |-> NoMinion,
        calls |-> <<>>]

\* the variables take the state a handler ended with
Becomes(st) ==
    /\ charge' = st.charge
    /\ affected_minions' = st.affected
    /\ charged_minions' = st.charged
    /\ silenced' = st.silenced
    /\ copied' = st.copied

\* "minion_played" is published on the owner of minion m: every listener bound
\* to it is give_charge_if_beast
minion_played_publish(m, st) ==
    give_charge_each([i \in 1..Len(minion_played[cm_owner(m)]) |-> m], 1, st)

\* a minion other than the target enters its owner's board with its card's type and
\* charge: it is summoned, or it is played and "minion_played" is published for it
EnterBoard(m, mtype, card_charge, played) ==
    /\ m # Target
    /\ cm[m].loc = "hand"
    /\ cm' = [cm EXCEPT ![m] = [loc |-> "board", minion_type |-> mtype,
                                card_charge |-> card_charge]]
    /\ cboard' = [cboard EXCEPT ![cm_owner(m)] = Append(@, m)]
    /\ LET st == [Now EXCEPT !.charge[m] = card_charge]
       IN IF played
          THEN /\ Becomes(minion_played_publish(m, st))
          ELSE Becomes(st)
    /\ UNCHANGED <<ca, minion_played, notCharge>>

\* the target, whose card has no charge, is put on its player's board; its effects
\* are applied next, and its own "minion_played" is published after that
PlaceTarget(mtype) ==
    /\ cm[Target].loc = "hand"
    /\ cm' = [cm EXCEPT ![Target] = [loc |-> "placed", minion_type |-> mtype,
                                     card_charge |-> FALSE]]
    /\ cboard' = [cboard EXCEPT ![cm_owner(Target)] = Append(@, Target)]
    /\ UNCHANGED <<ca, charge, affected_minions, charged_minions, silenced, copied,
                   minion_played, notCharge>>

PublishTargetPlayed ==
    /\ cm[Target].loc = "placed"
    /\ ca.st # "new"
    /\ cm' = [cm EXCEPT ![Target].loc = "board"]
    /\ Becomes(minion_played_publish(Target, Now))
    /\ UNCHANGED <<ca, cboard, minion_played, notCharge>>

\* ChargeAura.__init__
NewChargeAura(sel, mtype) ==
    /\ ca.st = "unbuilt"
    /\ ca' = [st |-> "new", players |-> sel, minion_type |-> mtype]
    /\ UNCHANGED <<cm, cboard, charge, affected_minions, charged_minions, silenced, copied,
                   minion_played, notCharge>>

ca_friendly == ca.players = "friendly" \/ ca.players = "both"

ca_enemy == ca.players = "enemy" \/ ca.players = "both"

\* ChargeAura.apply, the target being on its player's board
ChargeAura_apply ==
    /\ ca.st = "new"
    /\ cm[Target].loc # "hand"
    /\ ca' = [ca EXCEPT !.st = "applied"]
    /\ LET st1 == IF ca_friendly
                  THEN give_charge_each(cboard[cm_owner(Target)], 1, Now) ELSE Now
           st2 == IF ca_enemy
                  THEN give_charge_each(cboard[Opponent(cm_owner(Target))], 1, st1) ELSE st1
       IN Becomes(st2)
    /\ minion_played' = [p \in Players |->
            IF (ca_friendly /\ p = cm_owner(Target))
                    \/ (ca_enemy /\ p = Opponent(cm_owner(Target)))
            THEN bind(minion_played[p], give_charge_if_beast_ref)
            ELSE minion_played[p]]
    /\ UNCHANGED <<cm, cboard, notCharge>>

ChargeAura_unapply ==
    /\ ca.st = "applied"
    /\ ca' = [ca EXCEPT !.st = "unapplied"]
    /\ minion_played' = [p \in Players |->
            IF (ca_friendly /\ p = cm_owner(Target))
                    \/ (ca_enemy /\ p = Opponent(cm_owner(Target)))
            THEN unbind(minion_played[p], give_charge_if_beast_ref)
            ELSE minion_played[p]]
    /\ UNCHANGED <<cm, cboard, charge, affected_minions, charged_minions, silenced, copied,
                   notCharge>>

\* "silenced" is published on minion m
PublishSilenced(m) ==
    /\ cm[m].loc # "hand"
    /\ Becomes(run_listeners(silenced[m], 1, m, "silenced", Now))
    /\ UNCHANGED <<ca, cm, cboard, minion_played, notCharge>>

\* minion m is copied: the new minion n has m's card and m's charge flag and is put
\* on its owner's board, and "copied" is published on m with the new minion
PublishCopied(m, n) ==
    /\ cm[m].loc # "hand"
    /\ n # Target
    /\ cm[n].loc = "hand"
    /\ cm' = [cm EXCEPT ![n] = [loc |-> "board", minion_type |-> cm[m].minion_type,
                                card_charge |-> cm[m].card_charge]]
    /\ cboard' = [cboard EXCEPT ![cm_owner(n)] = Append(@, n)]
    /\ Becomes(run_listeners(copied[m], 1, m, "copied",
                             [Now EXCEPT !.new_minion = n, !.charge[n] = charge[m]]))
    /\ UNCHANGED <<ca, minion_played, notCharge>>

InitCharge ==
    /\ ca = [st |-> "unbuilt", players |-> "friendly", minion_type |-> MINION_TYPE_ALL]
    /\ cm = [m \in ChargeMinions |->
                [loc |-> "hand", minion_type |-> "NONE", card_charge |-> FALSE]]
    /\ cboard = [p \in Players |-> <<>>]
    /\ charge = [m \in ChargeMinions |-> FALSE]
    /\ affected_minions = <<>>
    /\ charged_minions = <<>>
    /\ silenced = [m \in ChargeMinions |-> <<>>]
    /\ copied = [m \in ChargeMinions |-> <<>>]
    /\ minion_played = [p \in Players |-> <<>>]

NextCharge ==
    \/ \E sel \in Selectors, mtype \in {MINION_TYPE_ALL, "BEAST"} : NewChargeAura(sel, mtype)
    \/ \E m \in ChargeMinions, mtype \in MinionTypes, card_charge, played \in BOOLEAN :
            EnterBoard(m, mtype, card_charge, played)
    \/ \E mtype \in MinionTypes : PlaceTarget(mtype)
    \/ PublishTargetPlayed
    \/ ChargeAura_apply
    \/ ChargeAura_unapply
    \/ \E m \in ChargeMinions : PublishSilenced(m)
    \/ \E m, n \in ChargeMinions : PublishCopied(m, n)

\* the ChargeAura scenario with an aura for both players, no unapply() and no copy
NextSilence ==
    \/ \E mtype \in {MINION_TYPE_ALL, "BEAST"} : NewChargeAura("both", mtype)
    \/ \E m \in ChargeMinions, mtype \in MinionTypes, card_charge, played \in BOOLEAN :
            EnterBoard(m, mtype, card_charge, played)
    \/ \E mtype \in MinionTypes : PlaceTarget(mtype)
    \/ PublishTargetPlayed
    \/ ChargeAura_apply
    \/ \E m \in ChargeMinions : PublishSilenced(m)

(***************************************************************************)
(* DrawOnMinion                                                            *)
(***************************************************************************)
check_minion_draw_ref == [fn |-> "check_minion_draw", m |-> 0]

\* DrawOnMinion.check_minion_draw(new_minion): the number of player.draw() calls
check_minion_draw(minion_type, new_type, is_target) ==
    IF (minion_type # MINION_TYPE_ALL /\ new_type = minion_type) /\ ~is_target THEN 1 ELSE 0

\* DrawOnMinion.__init__
NewDrawOnMinion(mtype) ==
    /\ dom.st = "unbuilt"
    /\ dom' = [st |-> "new", minion_type |-> mtype]
    /\ UNCHANGED <<minion_placed, draws, placed, notDraw>>

DrawOnMinion_apply ==
    /\ dom.st = "new"
    /\ dom' = [dom EXCEPT !.st = "applied"]
    /\ minion_placed' = bind(minion_placed, check_minion_draw_ref)
    /\ UNCHANGED <<draws, placed, notDraw>>

DrawOnMinion_unapply ==
    /\ dom.st = "applied"
    /\ dom' = [dom EXCEPT !.st = "unapplied"]
    /\ minion_placed' = unbind(minion_placed, check_minion_draw_ref)
    /\ UNCHANGED <<draws, placed, notDraw>>

\* "minion_placed" is published on the target's player for a minion of type new_type,
\* which is the target itself or another minion: every listener is check_minion_draw
PublishMinionPlaced(new_type, is_target) ==
    /\ placed.n < MaxPlaced
    /\ placed' = [n |-> placed.n + 1, is_target |-> is_target, minion_type |-> new_type]
    /\ draws' = draws + Len(minion_placed) * check_minion_draw(dom.minion_type, new_type, is_target)
    /\ UNCHANGED <<dom, minion_placed, notDraw>>

InitDraw ==
    /\ dom = [st |-> "unbuilt", minion_type |-> MINION_TYPE_ALL]
    /\ minion_placed = <<>>
    /\ draws = 0
    /\ placed = [n |-> 0, is_target |-> FALSE, minion_type |-> "NONE"]

NextDraw ==
    \/ \E mtype \in {MINION_TYPE_ALL, "BEAST"} : NewDrawOnMinion(mtype)
    \/ DrawOnMinion_apply
    \/ DrawOnMinion_unapply
    \/ \E new_type \in MinionTypes, is_target \in BOOLEAN : PublishMinionPlaced(new_type, is_target)

(***************************************************************************)
(* Buff.  Every Buff of the scenario is given to a minion of player 1;     *)
(* Buff i is given to minion i.                                            *)
(***************************************************************************)
BuffInst == {1, 2}
BuffOwner == 1
BuffEvents == {"minion_died", "minion_damaged", "minion_summoned", "card_played",
               "minion_played", "turn_ended", "turn_started"}
Whens == {"death", "damaged", "summoned", "played", "turn_ended", "turn_started"}
CardFilters == {"spell", "secret", "card"}
MinionFilters == {"self", "minion", "deathrattle", "BEAST", "bogus"}
BuffTargets == {"self", "random", "random_friendly", "random_enemy"}
NoBinding == [event |-> "none", fn |-> "none"]

\* the players Buff.apply and Buff.unapply select, or <<>> where they raise RuntimeError
Buff_players(sel) ==
    IF sel = "friendly" THEN <<BuffOwner>>
    ELSE IF sel = "enemy" THEN <<Opponent(BuffOwner)>>
    ELSE IF sel = "both" THEN <<BuffOwner, Opponent(BuffOwner)>>
    ELSE <<>>

Buff_raises(sel) == sel # "friendly" /\ sel # "enemy" /\ sel # "both"

\* the event name and the method Buff.apply binds
apply_binding(when, minion_filter) ==
    IF when = "death" THEN [event |-> "minion_died", fn |-> "_check_minion_filter"]
    ELSE IF when = "damaged" THEN [event |-> "minion_damaged", fn |-> "_check_minion_filter"]
    ELSE IF when = "summoned" THEN [event |-> "minion_summoned", fn |-> "_check_minion_filter"]
    ELSE IF when = "played"
         THEN (IF minion_filter = "spell" \/ minion_filter = "secret" \/ minion_filter = "card"
               THEN [event |-> "card_played", fn |-> "_check_card_filter"]
               ELSE [event |-> "minion_played", fn |-> "_check_minion_filter"])
    ELSE IF when = "turn_ended" THEN [event |-> "turn_ended", fn |-> "_do_action"]
    ELSE IF when = "turn_started" THEN [event |-> "turn_started", fn |-> "_do_action"]
    ELSE NoBinding

unapply_played_always_minion(when, minion_filter) ==
    IF when = "played" THEN [event |-> "minion_played", fn |-> "_check_minion_filter"]
    ELSE apply_binding(when, minion_filter)

\* the event name and the method Buff.unapply unbinds
unapply_binding(when, minion_filter) ==
    IF when = "death" THEN [event |-> "minion_died", fn |-> "_check_minion_filter"]
    ELSE IF when = "damaged" THEN [event |-> "minion_damaged", fn |-> "_check_minion_filter"]
    ELSE IF when = "summoned" THEN [event |-> "minion_summoned", fn |-> "_check_minion_filter"]
    ELSE IF when = "played"
         THEN (IF minion_filter = "spell" \/ minion_filter = "secret" \/ minion_filter = "card"
               THEN [event |-> "card_played", fn |-> "_check_card_filter"]
               ELSE [event |-> "minion_played", fn |-> "_check_minion_filter"])
    ELSE IF when = "turn_ended" THEN [event |-> "turn_ended", fn |-> "_do_action"]
    ELSE IF when = "turn_started" THEN [event |-> "turn_started", fn |-> "_do_action"]
    ELSE NoBinding

\* the bound method of Buff i
buff_method(i, fn) == [fn |-> fn, self |-> i]

InSelection(p, players) == \E k \in 1..Len(players) : players[k] = p

Buff_bound_default(ls, i, when, minion_filter, sel) ==
    LET b == apply_binding(when, minion_filter)
    IN IF b = NoBinding THEN ls
       ELSE [p \in Players |->
                IF Buff_raises(sel) \/ InSelection(p, Buff_players(sel))
                THEN [ls[p] EXCEPT ![b.event] = bind(@, buff_method(i, b.fn))]
                ELSE ls[p]]

\* the listener lists after Buff.apply of Buff i with these parameters
Buff_bound(ls, i, when, minion_filter, sel) ==
    LET b == apply_binding(when, minion_filter)
    IN IF Buff_raises(sel) \/ b = NoBinding THEN ls
       ELSE [p \in Players |->
                IF InSelection(p, Buff_players(sel))
                THEN [ls[p] EXCEPT ![b.event] = bind(@, buff_method(i, b.fn))]
                ELSE ls[p]]

\* the listener lists after Buff.unapply of Buff i with these parameters
Buff_unbound(ls, i, when, minion_filter, sel) ==
    LET b == unapply_binding(when, minion_filter)
    IN IF Buff_raises(sel) \/ b = NoBinding THEN ls
       ELSE [p \in Players |->
                IF InSelection(p, Buff_players(sel))
                THEN [ls[p] EXCEPT ![b.event] = unbind(@, buff_method(i, b.fn))]
                ELSE ls[p]]

\* Buff.__init__
NewBuff(i, when, minion_filter, target, shape, sel) ==
    /\ buff[i].st = "unbuilt"
    /\ buff' = [buff EXCEPT ![i] = [st |-> "new", when |-> when,
                                    minion_filter |-> minion_filter, buff_target |-> target,
                                    attack |-> shape.attack, health |-> shape.health,
                                    players |-> sel]]
    /\ UNCHANGED <<blisteners, bminions, bevents, braised, notBuff>>

\* Buff.apply: it raises before it binds anything
Buff_apply(i) ==
    /\ buff[i].st = "new"
    /\ buff' = [buff EXCEPT ![i].st = IF Buff_raises(buff[i].players)
                                      THEN "apply_raised" ELSE "applied"]
    /\ blisteners' = Buff_bound(blisteners, i, buff[i].when, buff[i].minion_filter,
                                buff[i].players)
    /\ UNCHANGED <<bminions, bevents, braised, notBuff>>

\* Buff.unapply, after apply() has returned or raised: it raises before it unbinds
\* anything
Buff_unapply(i) ==
    /\ buff[i].st \in {"applied", "apply_raised"}
    /\ buff' = [buff EXCEPT ![i].st = IF Buff_raises(buff[i].players)
                                      THEN "unapply_raised" ELSE "unapplied"]
    /\ blisteners' = Buff_unbound(blisteners, i, buff[i].when, buff[i].minion_filter,
                                  buff[i].players)
    /\ UNCHANGED <<bminions, bevents, braised, notBuff>>

\* the minions of the scenario: 1 and 2 are player 1's, 3 is player 2's; minion 1's
\* card is a beast, minion 2 has a deathrattle
BuffMinions == {1, 2, 3}
bm_owner(m) == IF m = 3 THEN Opponent(BuffOwner) ELSE BuffOwner
bm_type(m) == IF m = 1 THEN "BEAST" ELSE "NONE"
bm_deathrattle(m) == m = 2
KnownTypes == {"BEAST", "NONE"}
BuffShapes == {[attack |-> 1, health |-> 1], [attack |-> 0, health |-> -1]}

\* player p's minions other than minion t, in board order
RECURSIVE minions_of(_, _, _)
minions_of(p, t, m) ==
    IF m > 3 THEN <<>>
    ELSE (IF bm_owner(m) = p /\ m # t THEN <<m>> ELSE <<>>) \o minions_of(p, t, m + 1)

\* Buff._do_action of Buff i, game.random having returned r; st is [minions, raised]
do_action(i, r, st) ==
    LET targets == IF buff[i].buff_target = "random"
                   THEN minions_of(BuffOwner, i, 1) \o minions_of(Opponent(BuffOwner), i, 1)
                   ELSE IF buff[i].buff_target = "random_friendly"
                        THEN minions_of(BuffOwner, i, 1)
                        ELSE minions_of(Opponent(BuffOwner), i, 1)
        target == IF buff[i].buff_target = "self" THEN i
                  ELSE targets[(r % Len(targets)) + 1]
    IN IF buff[i].buff_target \notin {"self", "random", "random_friendly", "random_enemy"}
       THEN [st EXCEPT !.raised = TRUE]
       ELSE [st EXCEPT !.minions[target] =
                [attack |-> @.attack + buff[i].attack, health |-> @.health + buff[i].health]]

check_minion_filter_uncaught(i, minion, r, st) ==
    IF buff[i].minion_filter = "self"
    THEN (IF minion = i THEN do_action(i, r, st) ELSE st)
    ELSE IF buff[i].minion_filter = "minion" THEN do_action(i, r, st)
    ELSE IF buff[i].minion_filter = "deathrattle" /\ bm_deathrattle(minion)
         THEN do_action(i, r, st)
    ELSE IF buff[i].minion_filter \in KnownTypes
         THEN (IF bm_type(minion) = buff[i].minion_filter THEN do_action(i, r, st) ELSE st)
    ELSE [st EXCEPT !.raised = TRUE]

\* Buff._check_minion_filter of Buff i: MINION_TYPE.from_str raises KeyError for a
\* name that is no minion type, and the KeyError is caught
check_minion_filter(i, minion, r, st) ==
    IF buff[i].minion_filter = "self"
    THEN (IF minion = i THEN do_action(i, r, st) ELSE st)
    ELSE IF buff[i].minion_filter = "minion" THEN do_action(i, r, st)
    ELSE IF buff[i].minion_filter = "deathrattle" /\ bm_deathrattle(minion)
         THEN do_action(i, r, st)
    ELSE IF buff[i].minion_filter \in KnownTypes
         THEN (IF bm_type(minion) = buff[i].minion_filter THEN do_action(i, r, st) ELSE st)
    ELSE st

\* publish over the listeners ls, in registration order: a listener that raises
\* aborts the remaining ones
RECURSIVE run_buff_listeners(_, _, _, _, _)
run_buff_listeners(ls, k, minion, r, st) ==
    IF k > Len(ls) \/ st.raised THEN st
    ELSE LET cb == ls[k].cb
             st1 == IF cb.fn = "_check_minion_filter"
                    THEN check_minion_filter(cb.self, minion, r, st)
                    ELSE IF cb.fn = "_do_action" THEN do_action(cb.self, r, st)
                    ELSE st
         IN run_buff_listeners(ls, k + 1, minion, r, st1)

NowBuff == [minions |-> bminions, raised |-> FALSE]

\* a minion event is published on player p for minion m
PublishMinionEvent(ev, p, m, r) ==
    /\ bevents < MaxBuffEvents
    /\ bevents' = bevents + 1
    /\ LET st == run_buff_listeners(blisteners[p][ev], 1, m, r, NowBuff)
       IN bminions' = st.minions /\ braised' = st.raised
    /\ UNCHANGED <<buff, blisteners, notBuff>>

\* "turn_ended" or "turn_started" is published on player p
PublishTurnEvent(ev, p, r) ==
    /\ bevents < MaxBuffEvents
    /\ bevents' = bevents + 1
    /\ LET st == run_buff_listeners(blisteners[p][ev], 1, 1, r, NowBuff)
       IN bminions' = st.minions /\ braised' = st.raised
    /\ UNCHANGED <<buff, blisteners, notBuff>>

InitBuff ==
    /\ buff = [i \in BuffInst |-> [st |-> "unbuilt", when |-> "death", minion_filter |-> "self",
                                    buff_target |-> "self", attack |-> 0, health |-> 0,
                                    players |-> "friendly"]]
    /\ blisteners = [p \in Players |-> [ev \in BuffEvents |-> <<>>]]
    /\ bminions = [m \in BuffMinions |-> [attack |-> 1, health |-> 2]]
    /\ bevents = 0
    /\ braised = FALSE

\* Buff 1 is built with every `when`, a minion or a card filter and every `players`
\* value; Buff 2 is a second Buff for both players
NextBuffBind ==
    \/ \E when \in Whens, minion_filter \in {"self", "spell"},
          sel \in {"friendly", "enemy", "both", "bogus"} :
            NewBuff(1, when, minion_filter, "self", [attack |-> 1, health |-> 1], sel)
    \/ \E when \in {"death", "played"}, minion_filter \in {"self", "spell"} :
            NewBuff(2, when, minion_filter, "self", [attack |-> 1, health |-> 1], "both")
    \/ \E i \in BuffInst : Buff_apply(i)
    \/ \E i \in BuffInst : Buff_unapply(i)

\* Buff 1 is built with every minion filter and every `target` value, Buff 2 buffs
\* itself for any minion; minion events and turn events are published
NextBuffEvent ==
    \/ \E when \in {"death", "turn_ended"}, minion_filter \in MinionFilters,
          target \in BuffTargets \cup {"bogus"}, shape \in BuffShapes :
            NewBuff(1, when, minion_filter, target, shape, "friendly")
    \/ NewBuff(2, "death", "minion", "self", [attack |-> 1, health |-> 1], "both")
    \/ \E i \in BuffInst : Buff_apply(i)
    \/ \E p \in Players, m \in BuffMinions, r \in {0, 1} :
            PublishMinionEvent("minion_died", p, m, r)
    \/ \E p \in Players, r \in {0, 1} : PublishTurnEvent("turn_ended", p, r)

(***************************************************************************)
(* KillMinion and Immune: effects that subscribe on game.current_player.   *)
(***************************************************************************)
TurnEvents == {"turn_started", "turn_ended"}

\* KillMinion(when)
NewKillMinion(when) ==
    /\ km.st = "unbuilt"
    /\ km' = [st |-> "new", when |-> when]
    /\ UNCHANGED <<current_player, turn_open, tlisteners, imm, bound_at, immune, dead, tevents,
                   tcalls, notTurn>>

\* KillMinion.apply
KillMinion_apply ==
    /\ km.st = "new"
    /\ tlisteners' = [tlisteners EXCEPT ![current_player][km.when] = bind(@, "die")]
    /\ km' = [km EXCEPT !.st = "applied"]
    /\ bound_at' = [bound_at EXCEPT !["KillMinion"] = current_player]
    /\ tcalls' = <<>>
    /\ UNCHANGED <<current_player, turn_open, imm, immune, dead, tevents, notTurn>>

\* KillMinion.unapply
KillMinion_unapply ==
    /\ km.st = "applied"
    /\ tlisteners' = [tlisteners EXCEPT ![current_player][km.when] = unbind(@, "die")]
    /\ km' = [km EXCEPT !.st = "unapplied"]
    /\ tcalls' = <<>>
    /\ UNCHANGED <<current_player, turn_open, imm, bound_at, immune, dead, tevents, notTurn>>

\* Immune.apply
Immune_apply ==
    /\ imm.st = "new"
    /\ immune' = TRUE
    /\ tlisteners' = [tlisteners EXCEPT ![current_player]["turn_ended"] =
                                            bind(@, "remove_immunity")]
    /\ imm' = [imm EXCEPT !.st = "applied"]
    /\ bound_at' = [bound_at EXCEPT !["Immune"] = current_player]
    /\ tcalls' = <<>>
    /\ UNCHANGED <<current_player, turn_open, km, dead, tevents, notTurn>>

\* Immune.unapply: remove_immunity(), then the unbind
Immune_unapply ==
    /\ imm.st = "applied"
    /\ immune' = FALSE
    /\ tlisteners' = [tlisteners EXCEPT ![current_player]["turn_ended"] =
                                            unbind(@, "remove_immunity")]
    /\ imm' = [imm EXCEPT !.st = "unapplied"]
    /\ tcalls' = <<>>
    /\ UNCHANGED <<current_player, turn_open, km, bound_at, dead, tevents, notTurn>>

turn_callback_keeps_immunity(cb, st) ==
    IF cb = "die" THEN [st EXCEPT !.dead = TRUE] ELSE st

\* KillMinion.die and Immune.remove_immunity on [immune, dead, calls]
turn_callback(cb, st) ==
    IF cb = "die" THEN [st EXCEPT !.dead = TRUE]
    ELSE [st EXCEPT !.immune = FALSE]

\* the listeners ls[k..] of one publish, in order; neither callback binds or unbinds
RECURSIVE run_turn_listeners(_, _, _)
run_turn_listeners(ls, k, st) ==
    IF k > Len(ls) THEN st
    ELSE run_turn_listeners(ls, k + 1,
                            turn_callback(ls[k].cb, [st EXCEPT !.calls = Append(@, ls[k].cb)]))

\* what publishing turn event ev on player p leaves behind
TurnPublish(ev, p) ==
    run_turn_listeners(tlisteners[p][ev], 1, [immune |-> immune, dead |-> dead, calls |-> <<>>])

\* the game starts the next turn: the players swap and the new current player
\* publishes "turn_started"
StartTurn ==
    /\ ~turn_open
    /\ tevents < MaxTurnEvents
    /\ current_player' = Opponent(current_player)
    /\ turn_open' = TRUE
    /\ LET st == TurnPublish("turn_started", Opponent(current_player))
       IN immune' = st.immune /\ dead' = st.dead /\ tcalls' = st.calls
    /\ tevents' = tevents + 1
    /\ UNCHANGED <<tlisteners, km, imm, bound_at, notTurn>>

\* the game ends the turn: the current player publishes "turn_ended"
EndTurn ==
    /\ turn_open
    /\ tevents < MaxTurnEvents
    /\ turn_open' = FALSE
    /\ LET st == TurnPublish("turn_ended", current_player)
       IN immune' = st.immune /\ dead' = st.dead /\ tcalls' = st.calls
    /\ tevents' = tevents + 1
    /\ UNCHANGED <<current_player, tlisteners, km, imm, bound_at, notTurn>>

InitTurn ==
    /\ current_player = 1
    /\ turn_open = TRUE
    /\ tlisteners = [p \in Players |-> [ev \in TurnEvents |-> <<>>]]
    /\ km = [st |-> "unbuilt", when |-> "turn_ended"]
    /\ imm = [st |-> "new"]
    /\ bound_at = [e \in {"KillMinion", "Immune"} |-> NoPlayer]
    /\ immune = FALSE
    /\ dead = FALSE
    /\ tevents = 0
    /\ tcalls = <<>>

NextTurn ==
    \/ \E when \in TurnEvents : NewKillMinion(when)
    \/ KillMinion_apply
    \/ KillMinion_unapply
    \/ Immune_apply
    \/ Immune_unapply
    \/ StartTurn
    \/ EndTurn

(***************************************************************************)
(* ResurrectFriendlyMinionsAtEndOfTurn                                     *)
(***************************************************************************)
ResOwner == 1
ResCards == {"A", "B"}
ResEvents == {"minion_died", "turn_ended"}

\* ResurrectFriendlyMinionsAtEndOfTurn.apply
Resurrect_apply ==
    /\ res.st = "new"
    /\ res' = [res EXCEPT !.st = "applied"]
    /\ rlisteners' = [rlisteners EXCEPT
            ![ResOwner]["minion_died"] = bind(@, "_minion_died"),
            ![ResOwner]["turn_ended"] = bind(@, "_turn_ended"),
            ![Opponent(ResOwner)]["turn_ended"] = bind(@, "_turn_ended")]
    /\ UNCHANGED <<dead_minions, rboard, rdeaths, rsummons, revents, notResurrect>>

\* ResurrectFriendlyMinionsAtEndOfTurn.unapply
Resurrect_unapply ==
    /\ res.st = "applied"
    /\ res' = [res EXCEPT !.st = "unapplied"]
    /\ rlisteners' = [rlisteners EXCEPT
            ![ResOwner]["minion_died"] = unbind(@, "_minion_died"),
            ![ResOwner]["turn_ended"] = unbind(@, "_turn_ended"),
            ![Opponent(ResOwner)]["turn_ended"] = unbind(@, "_turn_ended")]
    /\ dead_minions' = <<>>
    /\ UNCHANGED <<rboard, rdeaths, rsummons, revents, notResurrect>>

\* _minion_died(dead_minion, attacker) on [dead_minions, board, summons]
res_minion_died(card, st) == [st EXCEPT !.dead_minions = Append(@, card)]

\* the loop of _turn_ended from dead_minions[k] on: each card is summoned at the end
\* of the board of the target's player
RECURSIVE res_turn_ended(_, _)
res_turn_ended(k, st) ==
    IF k > Len(st.dead_minions) THEN st
    ELSE res_turn_ended(k + 1,
            [st EXCEPT !.board = Append(@, st.dead_minions[k]),
                       !.summons[st.dead_minions[k]] = @ + 1])

\* the listeners ls[k..] of one publish, in order
RECURSIVE run_res_listeners(_, _, _, _)
run_res_listeners(ls, k, card, st) ==
    IF k > Len(ls) THEN st
    ELSE run_res_listeners(ls, k + 1, card,
            IF ls[k].cb = "_minion_died" THEN res_minion_died(card, st)
            ELSE res_turn_ended(1, st))

NowRes == [dead_minions |-> dead_minions, board |-> rboard, summons |-> rsummons]

\* a minion of player p with the given card dies (a friendly one leaves the board)
\* and "minion_died" is published on p
PublishResMinionDied(p, card) ==
    /\ revents < MaxResEvents
    /\ p = ResOwner => InSeq(card, rboard)
    /\ LET st == run_res_listeners(rlisteners[p]["minion_died"], 1, card,
                    [NowRes EXCEPT !.board = IF p = ResOwner THEN list_remove(@, card) ELSE @])
       IN /\ dead_minions' = st.dead_minions
          /\ rboard' = st.board
          /\ rsummons' = st.summons
    /\ rdeaths' = IF p = ResOwner /\ res.st = "applied"
                  THEN [rdeaths EXCEPT ![card] = @ + 1] ELSE rdeaths
    /\ revents' = revents + 1
    /\ UNCHANGED <<res, rlisteners, notResurrect>>

\* "turn_ended" is published on player p
PublishResTurnEnded(p) ==
    /\ revents < MaxResEvents
    /\ LET st == run_res_listeners(rlisteners[p]["turn_ended"], 1, "A", NowRes)
       IN /\ dead_minions' = st.dead_minions
          /\ rboard' = st.board
          /\ rsummons' = st.summons
    /\ revents' = revents + 1
    /\ UNCHANGED <<res, rlisteners, rdeaths, notResurrect>>

InitResurrect ==
    /\ res = [st |-> "new"]
    /\ dead_minions = <<>>
    /\ rlisteners = [p \in Players |-> [ev \in ResEvents |-> <<>>]]
    /\ rboard = <<"A", "B">>
    /\ rdeaths = [c \in ResCards |-> 0]
    /\ rsummons = [c \in ResCards |-> 0]
    /\ revents = 0

NextResurrect ==
    \/ Resurrect_apply
    \/ Resurrect_unapply
    \/ \E p \in Players, card \in ResCards : PublishResMinionDied(p, card)
    \/ \E p \in Players : PublishResTurnEnded(p)

(***************************************************************************)
(* AddCardOnSpell                                                          *)
(***************************************************************************)
AosOwner == 1

\* the hand size from which add_card adds nothing
HandCap == 10

\* AddCardOnSpell.apply
AddCardOnSpell_apply ==
    /\ aos.st = "new"
    /\ aos' = [aos EXCEPT !.st = "applied"]
    /\ spell_cast' = [spell_cast EXCEPT ![AosOwner] = bind(@, "add_card")]
    /\ UNCHANGED <<hand, added, spells, notSpell>>

\* AddCardOnSpell.unapply
AddCardOnSpell_unapply ==
    /\ aos.st = "applied"
    /\ aos' = [aos EXCEPT !.st = "unapplied"]
    /\ spell_cast' = [spell_cast EXCEPT ![AosOwner] = unbind(@, "add_card")]
    /\ UNCHANGED <<hand, added, spells, notSpell>>

add_card_uncapped(st) ==
    [hand |-> Append(st.hand, "added"), added |-> st.added + 1]

\* AddCardOnSpell.add_card(spell_card) on [hand, added]
add_card(st) ==
    IF Len(st.hand) < HandCap
    THEN [hand |-> Append(st.hand, "added"), added |-> st.added + 1]
    ELSE st

\* the listeners ls[k..] of one "spell_cast" publish, in order
RECURSIVE run_spell_listeners(_, _, _)
run_spell_listeners(ls, k, st) ==
    IF k > Len(ls) THEN st
    ELSE run_spell_listeners(ls, k + 1, add_card(st))

\* "spell_cast" is published on player p
PublishSpellCast(p) ==
    /\ spells.n < MaxSpells
    /\ LET st == run_spell_listeners(spell_cast[p], 1, [hand |-> hand, added |-> added])
       IN hand' = st.hand /\ added' = st.added
    /\ spells' = [n |-> spells.n + 1,
                  applied |-> IF p = AosOwner /\ aos.st = "applied"
                              THEN spells.applied + 1 ELSE spells.applied]
    /\ UNCHANGED <<aos, spell_cast, notSpell>>

\* the target's player draws a card; a full hand takes no more
DrawCard ==
    /\ Len(hand) < HandCap
    /\ hand' = Append(hand, "drawn")
    /\ UNCHANGED <<aos, spell_cast, added, spells, notSpell>>

InitSpell ==
    /\ aos = [st |-> "new"]
    /\ hand = <<>>
    /\ spell_cast = [p \in Players |-> <<>>]
    /\ added = 0
    /\ spells = [n |-> 0, applied |-> 0]

NextSpell ==
    \/ AddCardOnSpell_apply
    \/ AddCardOnSpell_unapply
    \/ \E p \in Players : PublishSpellCast(p)
    \/ DrawCard

InitCount ==
    /\ effect_count = [p \in Players |-> [k \in Kinds |-> 0]]
    /\ heal_does_damage = [p \in Players |-> FALSE]
    /\ had = [i \in HealInst |-> [st |-> "new", player |-> NoPlayer]]
    /\ dd = [i \in DDInst |-> [st |-> "new", player |-> NoPlayer]]
    /\ minion_died = [p \in Players |-> <<>>]
    /\ rattle_calls = 0
    /\ rattle_raised = FALSE

NextHeal ==
    \/ \E i \in HealInst, p \in Players : ApplyHealAsDamage(i, p)
    \/ \E i \in HealInst : UnapplyHealAsDamage(i)

NextRattle ==
    \/ \E i \in DDInst, p \in Players : ApplyDoubleDeathrattle(i, p)
    \/ \E i \in DDInst : UnapplyDoubleDeathrattle(i)
    \/ \E p \in Players, hasRattle \in BOOLEAN : PublishMinionDied(p, hasRattle)

Init == InitCount /\ InitDeath({FALSE}) /\ InitAura /\ InitMana /\ InitCharge /\ InitDraw
        /\ InitBuff /\ InitTurn /\ InitBattlecry /\ InitResurrect /\ InitSpell

\* the target minion's card may or may not give it a deathrattle of its own
InitAnyTarget ==
    InitCount /\ InitDeath(BOOLEAN) /\ InitAura /\ InitMana /\ InitCharge /\ InitDraw
        /\ InitBuff /\ InitTurn /\ InitBattlecry /\ InitResurrect /\ InitSpell

SpecHeal == Init /\ [][NextHeal]_vars

SpecRattle == Init /\ [][NextRattle]_vars

SpecDeath == InitAnyTarget /\ [][NextDeath]_vars

SpecTurn == Init /\ [][NextTurn]_vars

SpecBattlecry == Init /\ [][NextBattlecry]_vars

SpecResurrect == Init /\ [][NextResurrect]_vars

SpecSpell == Init /\ [][NextSpell]_vars

SpecUnsummon == InitAnyTarget /\ [][NextUnsummon]_vars

SpecAura == Init /\ [][NextAura]_vars

SpecMana == Init /\ [][NextMana]_vars

SpecCost == Init /\ [][NextCost]_vars

SpecCharge == Init /\ [][NextCharge]_vars

SpecSilence == Init /\ [][NextSilence]_vars

SpecDraw == Init /\ [][NextDraw]_vars

SpecBuffBind == Init /\ [][NextBuffBind]_vars

SpecBuffEvent == Init /\ [][NextBuffEvent]_vars

(***************************************************************************)
(* C1: heal_does_damage of a player is true exactly when that player's     *)
(* effect_count[HealAsDamage] is at least 1.                               *)
(***************************************************************************)
C1_HealFlagIffCounted ==
    \A p \in Players : heal_does_damage[p] <=> effect_count[p]["HealAsDamage"] >= 1

\* one instance was unapplied while another one of the same player remains
C1_Witness ==
    \E i, j \in HealInst :
        /\ had[i].st = "unapplied" /\ had[j].st = "applied"
        /\ had[i].player = had[j].player
        /\ heal_does_damage[had[j].player]

(***************************************************************************)
(* C2: a player's "minion_died" listeners hold a DoubleDeathrattle         *)
(* trigger_deathrattle callback if and only if that player's               *)
(* effect_count[DoubleDeathrattle] is at least 1.                          *)
(***************************************************************************)
C2_ListenerIffCounted ==
    \A p \in Players :
        (\E i \in DDInst : IsBound(minion_died[p], trigger_deathrattle(i)))
            <=> effect_count[p]["DoubleDeathrattle"] >= 1

(***************************************************************************)
(* C3: while DoubleDeathrattle is active for a player, a "minion_died"     *)
(* publish on that player makes the effect invoke the dead minion's        *)
(* deathrattle exactly once.                                               *)
(***************************************************************************)
C3_OneExtraRattle ==
    [][\A p \in Players :
        (PublishMinionDied(p, TRUE) /\ effect_count[p]["DoubleDeathrattle"] >= 1)
            => rattle_calls' = 1]_vars

(***************************************************************************)
(* C4: with SummonOnDeath effects E1..Ek applied in that order, one         *)
(* invocation of the deathrattle slot runs the minion's own deathrattle    *)
(* first (when it has one), then E1's summons, ..., then Ek's, each effect *)
(* summoning exactly its count, every replacement at the end of the board. *)
(***************************************************************************)
AppliedSummons == Cardinality({e \in SodInst : sod[e].st \in {"applied", "unapplied"}})

RECURSIVE ExpectedSummons(_)
ExpectedSummons(k) ==
    IF k = 0 THEN <<>>
    ELSE ExpectedSummons(k - 1)
            \o [i \in 1..sod[k].count |-> [by |-> k, card |-> sod[k].replacement]]

ExpectedLog ==
    (IF native THEN <<[by |-> 0, card |-> "native"]>> ELSE <<>>)
        \o ExpectedSummons(AppliedSummons)

CardsOf(log) ==
    LET s == SelectSeq(log, LAMBDA x : x.by # 0) IN [i \in 1..Len(s) |-> s[i].card]

C4_ChainOrder ==
    [][InvokeDeathrattle =>
        /\ rattle_log' = ExpectedLog
        /\ minions' = minions \o CardsOf(ExpectedLog)]_vars

\* an invocation ran the minion's own deathrattle and two effects with different
\* replacements, the second summoning twice
C4_Witness ==
    /\ native
    /\ Len(rattle_log) = 4
    /\ rattle_log[2].by = 1 /\ rattle_log[3].by = 2 /\ rattle_log[4].by = 2
    /\ rattle_log[2].card # rattle_log[3].card
    /\ Len(minions) >= 4

(***************************************************************************)
(* C5: once StatsAura.unapply() has run after apply(), the aura affects    *)
(* nothing: every minion on a board reads +0 attack and +0 health from it, *)
(* the minions that joined after the unapply included.                     *)
(***************************************************************************)
C5_NoDeltaAfterUnapply ==
    stats_aura.st = "unapplied" =>
        \A m \in AuraMinions :
            aura_board[m].player # NoPlayer => aura_attack(m) = 0 /\ aura_health(m) = 0

(***************************************************************************)
(* C6: the effective cost of a card is a left fold over the player's       *)
(* filters in registration order: each matching filter sets                *)
(* cost = max(cost + amount, minimum) with the amount and minimum its       *)
(* ManaFilter was built with, a filter that does not match leaves the cost *)
(* alone, and the clamp is made at every step; filters (-2, floor 1) then  *)
(* (+1, floor 0) on base cost 2 give 2; the result is never below 0.       *)
(***************************************************************************)
EffectOf(obj) == CHOOSE e \in MfInst : mf[e].filter_object = obj

CostAfter(chain, n, base, kind) == fold_filters(SubSeq(chain, 1, n), 1, base, kind)

Covering(p) ==
    {e \in MfInst : mf[e].st = "applied" /\ mf_covers(mf[e].player, mf[e].owner, p)}

Without(s, x) == SelectSeq(s, LAMBDA y : y # x)

C7_ChainsMatchApplied ==
    /\ [](\A p \in Players :
            /\ {mana_filters[p][i] : i \in 1..Len(mana_filters[p])}
                    = {mf[e].filter_object : e \in Covering(p)}
            /\ Len(mana_filters[p]) = Cardinality(Covering(p))
            /\ \A i, j \in 1..Len(mana_filters[p]) :
                    i < j => mana_filters[p][i].id < mana_filters[p][j].id)
    /\ [][\A e \in MfInst :
            (mf[e].st = "applied" /\ mf'[e].st = "unapplied") =>
                \A p \in Players :
                    mana_filters'[p] = Without(mana_filters[p], mf[e].filter_object)]_vars

\* an effect scoped "both" is applied and in both chains behind a later-applied
\* effect's object, after an effect applied before them was unapplied
C7_Witness ==
    \E e1, e2, e3 \in MfInst :
        /\ mf[e1].st = "unapplied" /\ mf[e2].st = "applied" /\ mf[e3].st = "applied"
        /\ mf[e2].player = "both"
        /\ mf[e1].filter_object.id < mf[e2].filter_object.id
        /\ mf[e2].filter_object.id < mf[e3].filter_object.id
        /\ \E p \in Players : Len(mana_filters[p]) = 2
        /\ \A p \in Players : mana_filters[p][1] = mf[e2].filter_object

(***************************************************************************)
(* C8: for a minion in affected_minions, a "silenced" or "copied" event    *)
(* published on that minion makes its charge false and detaches the        *)
(* aura-installed "silenced" and "copied" listeners from it.               *)
(***************************************************************************)
PermListeners(m, sl, cp) ==
    IsBound(sl[m], perm_silenced(m)) /\ IsBound(cp[m], perm_copied(m))

C8_RevokedByOwnEvent ==
    [][\A m \in ChargeMinions :
        (InSeq(m, affected_minions)
                /\ (PublishSilenced(m) \/ \E n \in ChargeMinions : PublishCopied(m, n)))
            => /\ ~charge'[m]
               /\ ~IsBound(silenced'[m], perm_silenced(m))
               /\ ~IsBound(copied'[m], perm_copied(m))]_vars

(***************************************************************************)
(* C8, amended: for a minion in affected_minions that holds the            *)
(* aura-installed listeners, a "silenced" event on it sets its charge to   *)
(* true and a "copied" event sets the charge of the new copy to false and  *)
(* leaves its own charge alone, and neither event detaches a listener; the *)
(* grant is revoked (charge false, both listeners detached) for every      *)
(* minion of affected_minions by the "silenced" event of the aura's target.*)
(* The first two parts are written in contrapositive form: a step that     *)
(* ends otherwise is not that event.                                       *)
(***************************************************************************)
C8_RevokedByTargetSilenced ==
    [][/\ \A m \in ChargeMinions :
            (InSeq(m, affected_minions) /\ PermListeners(m, silenced, copied)) =>
                /\ ~(charge'[m] /\ silenced'[m] = silenced[m] /\ copied'[m] = copied[m])
                        => ~PublishSilenced(m)
                /\ \A n \in ChargeMinions :
                        ~( /\ ~charge'[n] /\ charge'[m] = charge[m]
                           /\ silenced'[m] = silenced[m] /\ copied'[m] = copied[m] )
                            => ~PublishCopied(m, n)
       /\ (cm' = cm /\ ca' = ca /\ PublishSilenced(Target)) =>
            \A m \in ChargeMinions :
                InSeq(m, affected_minions) =>
                    /\ ~charge'[m]
                    /\ ~IsBound(silenced'[m], perm_silenced(m))
                    /\ ~IsBound(copied'[m], perm_copied(m))]_vars

\* a minion of affected_minions has been copied (the copy has a card with charge and
\* is in neither list, yet has no charge) and has charge and both listeners still
C8_Witness ==
    \E m, n \in ChargeMinions :
        /\ m # n
        /\ InSeq(m, affected_minions)
        /\ charge[m]
        /\ PermListeners(m, silenced, copied)
        /\ cm[n].loc = "board" /\ cm[n].card_charge /\ ~charge[n]
        /\ ~InSeq(n, affected_minions) /\ ~InSeq(n, charged_minions)

(***************************************************************************)
(* C9: when the aura source is removed, by ChargeAura.unapply() or by the  *)
(* target's "silenced" event, no minion of charged_minions keeps the       *)
(* aura-installed "silenced" migration listener, and every minion of       *)
(* affected_minions has charge afterwards.                                 *)
(***************************************************************************)
C9_SourceRemoved ==
    [][(ChargeAura_unapply \/ PublishSilenced(Target)) =>
        /\ \A m \in ChargeMinions :
                InSeq(m, charged_minions') => ~IsBound(silenced'[m], watch_silenced(m))
        /\ \A m \in ChargeMinions : InSeq(m, affected_minions') => charge'[m]]_vars

(***************************************************************************)
(* C10: charged_minions and affected_minions are disjoint, no minion is    *)
(* twice in either list, and the aura's target is in neither.              *)
(***************************************************************************)
NoDuplicates(s) == \A i, j \in 1..Len(s) : s[i] = s[j] => i = j

C10_SetDiscipline ==
    /\ \A m \in ChargeMinions : ~(InSeq(m, charged_minions) /\ InSeq(m, affected_minions))
    /\ NoDuplicates(charged_minions)
    /\ NoDuplicates(affected_minions)
    /\ ~InSeq(Target, charged_minions)
    /\ ~InSeq(Target, affected_minions)

\* a minion that came with charge has been silenced and moved to affected_minions
\* while another one is still in charged_minions
C10_Witness ==
    \E m, n \in ChargeMinions :
        /\ cm[m].card_charge /\ InSeq(m, affected_minions)
        /\ InSeq(n, charged_minions)
        /\ cm[Target].loc = "board"

(***************************************************************************)
(* C11: in every state, a "silenced" event on a minion of charged_minions  *)
(* runs the migration callback exactly once and none of the listeners it   *)
(* binds during the dispatch, and ends with the minion in affected_minions *)
(* and not in charged_minions, with charge, holding the new "silenced"     *)
(* listener and not the migration listener.  A "silenced" on a minion of   *)
(* affected_minions migrates nothing and runs the new listener once.       *)
(***************************************************************************)
Count(s, x) == Cardinality({i \in 1..Len(s) : s[i] = x})

\* the state a "silenced" publish on minion m ends with, from the current state
Silence(m) == run_listeners(silenced[m], 1, m, "silenced", Now)

Migrated(m) ==
    LET r == Silence(m)
    IN /\ Count(r.calls, watch_silenced(m)) = 1
       /\ Count(r.calls, perm_silenced(m)) = 0
       /\ ~InSeq(m, r.charged) /\ InSeq(m, r.affected)
       /\ r.charge[m]
       /\ IsBound(r.silenced[m], perm_silenced(m))
       /\ ~IsBound(r.silenced[m], watch_silenced(m))

NotMigratedAgain(m) ==
    LET r == Silence(m)
    IN /\ Count(r.calls, watch_silenced(m)) = 0
       /\ IsBound(silenced[m], perm_silenced(m)) => Count(r.calls, perm_silenced(m)) = 1
       /\ r.affected = affected_minions
       /\ r.charged = charged_minions

C11_MigratesOnce ==
    \A m \in ChargeMinions :
        /\ InSeq(m, charged_minions) => Migrated(m)
        /\ InSeq(m, affected_minions) => NotMigratedAgain(m)

(***************************************************************************)
(* C11, amended: the same, for a minion of charged_minions that still      *)
(* holds the migration listener, which the "silenced" event of the aura's  *)
(* target removes; for a minion of charged_minions without it a "silenced" *)
(* event runs no callback and leaves both lists as they are.               *)
(***************************************************************************)
C11_MigratesOnceWhileWatched ==
    \A m \in ChargeMinions :
        /\ (InSeq(m, charged_minions) /\ IsBound(silenced[m], watch_silenced(m)))
                => Migrated(m)
        /\ (InSeq(m, charged_minions) /\ ~IsBound(silenced[m], watch_silenced(m)))
                => ( /\ Silence(m).calls = <<>>
                     /\ Silence(m).charged = charged_minions
                     /\ Silence(m).affected = affected_minions )
        /\ InSeq(m, affected_minions) => NotMigratedAgain(m)

\* a minion whose card has charge has migrated: it is in affected_minions with the
\* permanent listeners and without the migration listener
C11_Witness ==
    \E m \in ChargeMinions :
        /\ cm[m].card_charge /\ InSeq(m, affected_minions) /\ ~InSeq(m, charged_minions)
        /\ charge[m]
        /\ PermListeners(m, silenced, copied)
        /\ ~IsBound(silenced[m], watch_silenced(m))

(***************************************************************************)
(* C12: while DrawOnMinion is applied, a "minion_placed" event on the      *)
(* target's player causes exactly one player.draw() if the placed minion   *)
(* is not the target and the effect's minion_type is MINION_TYPE.ALL or    *)
(* the placed minion's type, and no draw otherwise.                        *)
(***************************************************************************)
C12_DrawPerPlacement ==
    [][(placed'.n = placed.n + 1 /\ dom.st = "applied") =>
            draws' = draws + (IF ~placed'.is_target
                                    /\ (dom.minion_type = MINION_TYPE_ALL
                                            \/ placed'.minion_type = dom.minion_type)
                              THEN 1 ELSE 0)]_vars

(***************************************************************************)
(* C13: Buff.apply() and Buff.unapply() of a Buff whose `players` is none  *)
(* of "friendly", "enemy" and "both" raise an error, and leave every       *)
(* listener list of every player as it was.                                *)
(***************************************************************************)
C13_RaisesBeforeBinding ==
    [][\A i \in BuffInst :
        (Buff_raises(buff[i].players) /\ (Buff_apply(i) \/ Buff_unapply(i)))
            => /\ buff'[i].st \in {"apply_raised", "unapply_raised"}
               /\ blisteners' = blisteners]_vars

\* unapply() has raised for a Buff with an unrecognized `players`, while another
\* Buff is applied and bound for both players
C13_Witness ==
    \E i, j \in BuffInst :
        /\ buff[i].st = "unapply_raised" /\ buff[i].players = "bogus"
        /\ buff[j].st = "applied"
        /\ \A p \in Players : \E ev \in BuffEvents : Len(blisteners[p][ev]) = 1

(***************************************************************************)
(* C14: an effect with an unrecognized selector value is rejected no later *)
(* than apply(): no Buff whose `target` is none of "self", "random",       *)
(* "random_friendly" and "random_enemy", or whose `players` is             *)
(* unrecognized, is ever applied.                                          *)
(***************************************************************************)
C14_SelectorsRejected ==
    \A i \in BuffInst :
        buff[i].st = "applied" =>
            (buff[i].buff_target \in BuffTargets /\ ~Buff_raises(buff[i].players))

(***************************************************************************)
(* C15: for a Buff whose minion_filter is none of "self", "minion",        *)
(* "deathrattle" and no minion-type name, in every state a minion event    *)
(* delivered to its _check_minion_filter changes no minion's attack or     *)
(* health and raises no error, and a publish ends as it does without that  *)
(* Buff's listener: the other listeners of the publish run.                *)
(***************************************************************************)
UnknownFilter(i) ==
    buff[i].minion_filter \notin ({"self", "minion", "deathrattle"} \cup KnownTypes)

\* the listeners ls without the _check_minion_filter of Buff i
WithoutBuff(ls, i) ==
    LET Other(e) == ~(e.cb.self = i /\ e.cb.fn = "_check_minion_filter")
    IN SelectSeq(ls, Other)

C15_LookupMissIsNoMatch ==
    \A i \in BuffInst :
        (buff[i].st # "unbuilt" /\ UnknownFilter(i)) =>
            \A m \in BuffMinions, r \in {0, 1} :
                /\ check_minion_filter(i, m, r, NowBuff) = NowBuff
                /\ \A p \in Players, ev \in BuffEvents :
                        run_buff_listeners(blisteners[p][ev], 1, m, r, NowBuff)
                            = run_buff_listeners(WithoutBuff(blisteners[p][ev], i), 1, m, r,
                                                 NowBuff)

\* a minion event was published to a Buff with an unknown filter and, after it, to a
\* second Buff, which buffed its minion; no other minion changed and no error was raised
C15_Witness ==
    \E i, j \in BuffInst :
        /\ buff[i].st = "applied" /\ UnknownFilter(i)
        /\ buff[j].st = "applied"
        /\ \E p \in Players :
                /\ Len(blisteners[p]["minion_died"]) = 2
                /\ blisteners[p]["minion_died"][1].cb.self = i
                /\ blisteners[p]["minion_died"][2].cb.self = j
        /\ bevents = 1 /\ ~braised
        /\ bminions[j] = [attack |-> 2, health |-> 3]
        /\ \A m \in BuffMinions \ {j} : bminions[m] = [attack |-> 1, health |-> 2]

(***************************************************************************)
(* C19: for every `when`, minion_filter and valid `players`, and every     *)
(* state of the players' listener lists, Buff.apply() followed by          *)
(* Buff.unapply() of a Buff that has nothing bound leaves every listener   *)
(* list as it was; and the unapply() of an applied Buff removes its own    *)
(* listeners and nothing else.                                             *)
(***************************************************************************)
OwnRemoved(ls, i) ==
    LET Other(e) == e.cb.self # i
    IN [p \in Players |-> [ev \in BuffEvents |-> SelectSeq(ls[p][ev], Other)]]

C19_RoundTrip ==
    /\ [](\A i \in BuffInst :
            buff[i].st # "applied" =>
                \A when \in Whens, minion_filter \in MinionFilters \cup CardFilters,
                   sel \in {"friendly", "enemy", "both"} :
                    Buff_unbound(Buff_bound(blisteners, i, when, minion_filter, sel),
                                 i, when, minion_filter, sel) = blisteners)
    /\ [][\A i \in BuffInst :
            (buff[i].st = "applied" /\ Buff_unapply(i)) =>
                /\ blisteners' = OwnRemoved(blisteners, i)
                /\ blisteners' # blisteners]_vars

\* a Buff bound to "card_played" for both players was applied after another Buff and
\* unapplied again, and the other Buff's listeners are still bound
C19_Witness ==
    \E i, j \in BuffInst :
        /\ buff[i].st = "unapplied" /\ buff[i].when = "played"
        /\ buff[i].minion_filter = "spell" /\ buff[i].players = "both"
        /\ buff[j].st = "applied" /\ buff[j].when = "played" /\ buff[j].minion_filter = "spell"
        /\ \A p \in Players : Len(blisteners[p]["card_played"]) = 1

(***************************************************************************)
(* C16: SummonOnDeath.unapply() leaves the target's deathrattle slot and   *)
(* every effect's captured old_death_rattle unchanged, and an invocation   *)
(* of the slot runs the whole chain (the minion's own deathrattle, then    *)
(* the summons of every effect applied, in the order applied) whichever of *)
(* the effects have been unapplied.                                        *)
(***************************************************************************)
C16_UnapplyKeepsChain ==
    /\ [][\A e \in SodInst :
            UnapplySummonOnDeath(e) =>
                /\ deathrattle' = deathrattle
                /\ \A f \in SodInst : sod'[f].old_death_rattle = sod[f].old_death_rattle
                /\ minions' = minions]_vars
    /\ [][InvokeDeathrattle =>
            /\ rattle_log' = ExpectedLog
            /\ minions' = minions \o CardsOf(ExpectedLog)]_vars

\* the first of two effects was unapplied, between or after the two apply() calls, and
\* the minion's death ran the minion's own deathrattle and both effects' summons
C16_Witness ==
    /\ native
    /\ sod[1].st = "unapplied" /\ sod[2].st = "applied"
    /\ deaths = 1
    /\ rattle_log = ExpectedLog
    /\ Len(rattle_log) >= 3
    /\ rattle_log[2].by = 1 /\ rattle_log[Len(rattle_log)].by = 2

\* C17: after Immune.apply() the target's immune flag is true; it goes from true to
\* false only in unapply() or in a "turn_ended" of the player who was
\* game.current_player at apply time, both of which leave it false; and the effect
\* sets it to true nowhere but in its one apply().
C17_ImmuneLifetime ==
    [][/\ Immune_apply => immune'
       /\ (immune /\ ~immune') =>
               \/ Immune_unapply
               \/ EndTurn /\ imm.st = "applied" /\ current_player = bound_at["Immune"]
       /\ (EndTurn /\ imm.st = "applied" /\ current_player = bound_at["Immune"]) => ~immune'
       /\ Immune_unapply => ~immune'
       /\ (~immune /\ immune') => (imm.st = "new" /\ Immune_apply)]_vars

\* the immunity outlived a turn of the other player and was then ended by the
\* "turn_ended" of the player it was bound on
C17_Witness ==
    /\ imm.st = "applied"
    /\ bound_at["Immune"] = 1
    /\ current_player = 1 /\ ~turn_open
    /\ tevents = 5
    /\ tcalls = <<"remove_immunity">>
    /\ ~immune

\* C18: once KillMinion or Immune has been unapplied, no player's listener list
\* holds its die / remove_immunity callback and no turn event runs that callback,
\* whichever player was game.current_player at unapply time.
C18_UnbindsWhereBound ==
    /\ km.st = "unapplied" =>
            /\ \A p \in Players, ev \in TurnEvents : ~IsBound(tlisteners[p][ev], "die")
            /\ ~InSeq("die", tcalls)
    /\ imm.st = "unapplied" =>
            /\ \A p \in Players, ev \in TurnEvents :
                    ~IsBound(tlisteners[p][ev], "remove_immunity")
            /\ ~InSeq("remove_immunity", tcalls)

\* C20: when "silenced" is published on the aura's target, every member of
\* affected_minions ends without charge and without the "silenced" and "copied"
\* listeners the aura bound on it, its revocation having run once if it was still
\* pending and not at all otherwise; every member of charged_minions stays there
\* with charge true and no callback that writes its charge runs; and no step writes
\* the charge flag of a minion that is in charged_minions before and after it.
C20_SourceSilenced ==
    /\ [](cm[Target].loc # "hand" =>
            LET r == Silence(Target)
            IN /\ r.charged = charged_minions
               /\ \A m \in ChargeMinions :
                    /\ InSeq(m, affected_minions) =>
                            /\ ~r.charge[m]
                            /\ ~IsBound(r.silenced[m], perm_silenced(m))
                            /\ ~IsBound(r.copied[m], perm_copied(m))
                            /\ Count(r.calls, target_silenced(m)) =
                                    (IF IsBound(silenced[Target], target_silenced(m))
                                     THEN 1 ELSE 0)
                            /\ IsBound(silenced[m], perm_silenced(m)) =>
                                    Count(r.calls, target_silenced(m)) = 1
                    /\ InSeq(m, charged_minions) =>
                            /\ charge[m] /\ r.charge[m]
                            /\ \A i \in 1..Len(r.calls) :
                                    r.calls[i].m = m => r.calls[i].fn = "unwatch")
    /\ [][\A m \in ChargeMinions :
            (InSeq(m, charged_minions) /\ InSeq(m, charged_minions')) =>
                    charge'[m] = charge[m]]_vars

\* the target has been silenced with one minion in affected_minions and another in
\* charged_minions: the first has lost the charge and the listeners the aura gave
\* it, the second has kept its own charge
C20_Witness ==
    /\ ca.st = "applied"
    /\ \E m, n \in ChargeMinions :
            /\ InSeq(m, affected_minions) /\ InSeq(n, charged_minions)
            /\ ~charge[m] /\ charge[n]
            /\ ~IsBound(silenced[m], perm_silenced(m))
            /\ ~IsBound(copied[m], perm_copied(m))
            /\ ~IsBound(silenced[Target], target_silenced(m))
            /\ ~IsBound(silenced[Target], unwatch(n))
            /\ ~IsBound(silenced[n], watch_silenced(n))

\* C21: with IncreaseBattlecryMinionCost(amount) applied and no other filter in a
\* player's chain, a minion card with a battlecry costs base_cost + amount for that
\* player, for both players; once the effect is unapplied and no other filter is
\* in the chain, the chain is empty again and the card costs base_cost.
C21_RaisesCost ==
    \A p \in Players, base \in 0..MaxBase :
        /\ (ibc.st = "applied" /\ mana_filters[p] = <<ibc.mana_filter>>) =>
                mana_cost(mana_filters[p], base, "battlecry_minion") = base + ibc.amount
        /\ (ibc.st = "unapplied" /\ \A e \in MfInst : mf[e].st # "applied") =>
                /\ mana_filters[p] = <<>>
                /\ mana_cost(mana_filters[p], base, "battlecry_minion") = base

\* C22: a friendly death recorded while ResurrectFriendlyMinionsAtEndOfTurn is
\* applied is summoned once: no card has been summoned more often than its deaths
\* were recorded, a "turn_ended" of either player with the effect applied leaves each
\* card summoned exactly as often as its deaths were recorded, at the end of the
\* board, and with the effect unapplied no event summons anything.
C22_ResurrectsOnce ==
    /\ [](\A c \in ResCards : rsummons[c] <= rdeaths[c])
    /\ [][/\ \A p \in Players :
                (res.st = "applied" /\ PublishResTurnEnded(p)) =>
                    /\ \A c \in ResCards : rsummons'[c] = rdeaths[c]
                    /\ Len(rboard') >= Len(rboard)
                    /\ SubSeq(rboard', 1, Len(rboard)) = rboard
          /\ res.st = "unapplied" =>
                (rsummons' = rsummons /\ Len(rboard') <= Len(rboard))]_vars

\* C23: with AddCardOnSpell applied, a "spell_cast" event on the target's player
\* appends exactly one card to that player's hand when the hand holds fewer than 10
\* cards and leaves the hand as it is otherwise; the hand never holds more than 10
\* cards; a "spell_cast" event on the other player, or with the effect unapplied,
\* leaves the hand as it is.
C23_HandCap ==
    /\ [](Len(hand) <= HandCap /\ added <= spells.applied)
    /\ [][/\ (aos.st = "applied" /\ PublishSpellCast(AosOwner)) =>
                hand' = (IF Len(hand) < HandCap THEN Append(hand, "added") ELSE hand)
          /\ (PublishSpellCast(Opponent(AosOwner))
                \/ (aos.st # "applied" /\ PublishSpellCast(AosOwner))) =>
                (hand' = hand /\ added' = added)]_vars

\* the effect is applied and the hand is full: one "spell_cast" event appended the
\* hand's last card and another, on the full hand, added nothing
C23_Witness ==
    /\ aos.st = "applied"
    /\ Len(hand) = HandCap
    /\ hand[HandCap] = "added"
    /\ added = 1
    /\ spells.applied = 2

====
